---- MODULE Spec2Model ----
(***************************************************************************)
(* The account ledger (InMemoryDB) and the transaction processor           *)
(* (CanvasProcessor::apply_transaction) of program/src/lib.rs.             *)
(*                                                                         *)
(* Abstractions.  An Address is one of the strings of Addr.  A signature   *)
(* (r, s, odd_y_parity) is identified with what ECDSA recovery returns for *)
(* it: the signer's address, or RecoverError when recovery fails.  A       *)
(* String is the sequence of its chars (the code edits a Vec<char>).  The  *)
(* fields version and extra of Transaction are never read by               *)
(* apply_transaction and are left out.  A keccak256 digest is the term of   *)
(* what was hashed (the hash is collision-free); the byte order of the      *)
(* digests is one of a family of total orders, chosen by salt at the start. *)
(* MerkleTree::from_leaves, root and proof are the rs_merkle crate's, as    *)
(* lib.rs calls them.  A panic (Vec::splice or Vec::drain *)
(* given a range outside the vector) is the outcome "Panic": the process   *)
(* stops and no further call is made.  The u64 nonce is capped by MaxNonce *)
(* in the guard of the action, far below 2^64, so `nonce += 1` never       *)
(* overflows in the model.                                                 *)
(***************************************************************************)
EXTENDS Integers, Sequences, FiniteSets, TLC

VARIABLES
    accounts,   \* InMemoryDB.accounts: the materialized entries, Address -> Account
    input,      \* the SignedTransaction of the last apply_transaction call
    result,     \* outcome of the last call: "None" before the first one
    pre,        \* accounts as they were before the last call
    init,       \* accounts as they were before the first call
    sent,       \* per address, the number of successful calls it was the sender of
    selfSent,   \* some call so far had its recovered sender equal to tx.to
    firstSeen,  \* per address, the senders of successful calls to it, by first call
    accepted,   \* <<sender, nonce>> of the successful calls whose tx.nonce was the stored nonce
    steps,      \* number of calls made so far
    op,         \* the last call made: "none" before the first one
    ret,        \* what the last call returned, for the calls that return a value
    run,        \* the locals of main: pc, transactions, roots, commitment, output
    salt        \* which byte order the keccak256 digests have (see hash_less)

vars == <<accounts, input, result, pre, init, sent, selfSent, firstSeen, accepted, steps,
          op, ret, run, salt>>

----------------------------------------------------------------------------
(* Bounds of the model. *)

MaxNonce == 2
MaxLen == 3
MaxSteps == 2

----------------------------------------------------------------------------
(* Values. *)

Addr == {"a1", "a2", "a3"}

RecoverError == "RecoverError"

NoInput == [tx |-> [to |-> "a1", data |-> <<>>, nonce |-> 0], sig |-> RecoverError]

DefaultAccount == [nonce |-> 0, data |-> <<>>, contributors |-> <<>>]

EmptyDB == <<>>

----------------------------------------------------------------------------
(* InMemoryDB. *)

get_account(db, address) ==
    IF address \in DOMAIN db THEN db[address] ELSE DefaultAccount

set_account_replaces_map(db, address, account) ==
    [a \in {address} |-> account]

set_account_if_absent(db, address, account) ==
    [a \in (DOMAIN db) \cup {address} |-> IF a \in DOMAIN db THEN db[a] ELSE account]

set_account(db, address, account) ==
    [a \in (DOMAIN db) \cup {address} |-> IF a = address THEN account ELSE db[a]]

----------------------------------------------------------------------------
(* The edit loop of apply_transaction. *)

\* Vec::splice(index..index, value): value is inserted before position index
\* (0-based); the vector's elements from index on move right.
splice(data_chars, index, value) ==
    [k \in 1..(Len(data_chars) + Len(value)) |->
        IF k <= index THEN data_chars[k]
        ELSE IF k <= index + Len(value) THEN value[k - index]
        ELSE data_chars[k - Len(value)]]

drain_keeps_last(data_chars, index, count) ==
    [k \in 1..(Len(data_chars) - count + 1) |->
        IF k <= index THEN data_chars[k] ELSE data_chars[k + count - 1]]

\* Vec::drain(index..index + count): the count elements from position index
\* (0-based) on are removed.
drain(data_chars, index, count) ==
    [k \in 1..(Len(data_chars) - count) |->
        IF k <= index THEN data_chars[k] ELSE data_chars[k + count]]

\* Both calls panic when the range ends beyond the vector.
range_panics(data_chars, data) ==
    IF data.count = 0
    THEN data.index > Len(data_chars)
    ELSE data.index + data.count > Len(data_chars)

edit_by_value(data_chars, data) ==
    IF data.value # <<>>
    THEN splice(data_chars, data.index, data.value)
    ELSE drain(data_chars, data.index, data.count)

\* match data.count { 0 => splice, _ => drain }
edit(data_chars, data) ==
    IF data.count = 0
    THEN splice(data_chars, data.index, data.value)
    ELSE drain(data_chars, data.index, data.count)

\* for data in tx.data { ... }: the edits in order, each on the vector the
\* previous one left; panic is TRUE when one of them panicked.
RECURSIVE apply_edits(_, _)
apply_edits(data_chars, edits) ==
    IF edits = <<>> THEN [panic |-> FALSE, chars |-> data_chars]
    ELSE IF range_panics(data_chars, Head(edits))
         THEN [panic |-> TRUE, chars |-> data_chars]
         ELSE apply_edits(edit(data_chars, Head(edits)), Tail(edits))

----------------------------------------------------------------------------
(* apply_transaction. *)

recover_address_from_tx(signed) == signed.sig

nonce_stale_or_equal(tx, from_account) == tx.nonce <= from_account.nonce

\* if tx.nonce < from_account.nonce { return Err(..) }
nonce_stale(tx, from_account) == tx.nonce < from_account.nonce

keep_nonce(from_account) == from_account

\* from_account.nonce += 1
increment_nonce(from_account) ==
    [from_account EXCEPT !.nonce = @ + 1]

\* Vec::contains
Contains(seq, x) == \E i \in 1..Len(seq) : seq[i] = x

always_push(to_account, from_address) ==
    [to_account EXCEPT !.contributors = Append(@, from_address)]

\* if !to_account.contributors.contains(&from_address) { push }
push_contributor(to_account, from_address) ==
    IF Contains(to_account.contributors, from_address)
    THEN to_account
    ELSE [to_account EXCEPT !.contributors = Append(@, from_address)]

apply_transaction_writes_sender_first(db, signed) ==
    LET tx == signed.tx
        from_address == recover_address_from_tx(signed)
        to_address == tx.to
        from_account == get_account(db, from_address)
        to_account == get_account(db, to_address)
        edited == apply_edits(to_account.data, tx.data)
        to_edited == [to_account EXCEPT !.data = edited.chars]
        db1 == set_account(db, from_address, increment_nonce(from_account))
    IN  IF from_address = RecoverError
        THEN [result |-> "AuthenticationError", accounts |-> db]
        ELSE IF nonce_stale(tx, from_account)
        THEN [result |-> "NonceError", accounts |-> db]
        ELSE IF edited.panic
        THEN [result |-> "Panic", accounts |-> db1]
        ELSE [result |-> "Ok",
              accounts |-> set_account(db1, to_address,
                                       push_contributor(to_edited, from_address))]

apply_transaction_increments_recipient(db, signed) ==
    LET tx == signed.tx
        from_address == recover_address_from_tx(signed)
        to_address == tx.to
        from_account == get_account(db, from_address)
        to_account == get_account(db, to_address)
        edited == apply_edits(to_account.data, tx.data)
        to_edited == [increment_nonce(to_account) EXCEPT !.data = edited.chars]
    IN  IF from_address = RecoverError
        THEN [result |-> "AuthenticationError", accounts |-> db]
        ELSE IF nonce_stale(tx, from_account)
        THEN [result |-> "NonceError", accounts |-> db]
        ELSE IF edited.panic
        THEN [result |-> "Panic", accounts |-> db]
        ELSE [result |-> "Ok",
              accounts |->
                set_account(
                    set_account(db, from_address, from_account),
                    to_address,
                    push_contributor(to_edited, from_address))]

apply_transaction_edits_first(db, signed) ==
    LET tx == signed.tx
        from_address == recover_address_from_tx(signed)
        to_address == tx.to
        from_account == get_account(db, from_address)
        to_account == get_account(db, to_address)
        edited == apply_edits(to_account.data, tx.data)
        to_edited == [to_account EXCEPT !.data = edited.chars]
    IN  IF from_address = RecoverError
        THEN [result |-> "AuthenticationError", accounts |-> db]
        ELSE IF edited.panic
        THEN [result |-> "Panic", accounts |-> db]
        ELSE IF nonce_stale(tx, from_account)
        THEN [result |-> "NonceError", accounts |-> db]
        ELSE [result |-> "Ok",
              accounts |->
                set_account(
                    set_account(db, from_address, increment_nonce(from_account)),
                    to_address,
                    push_contributor(to_edited, from_address))]

\* The outcome of apply_transaction(signed) on the ledger db: the result and
\* the ledger it leaves.
apply_transaction(db, signed) ==
    LET tx == signed.tx
        from_address == recover_address_from_tx(signed)
        to_address == tx.to
        from_account == get_account(db, from_address)
        to_account == get_account(db, to_address)
        edited == apply_edits(to_account.data, tx.data)
        to_edited == [to_account EXCEPT !.data = edited.chars]
    IN  IF from_address = RecoverError
        THEN [result |-> "AuthenticationError", accounts |-> db]
        ELSE IF nonce_stale(tx, from_account)
        THEN [result |-> "NonceError", accounts |-> db]
        ELSE IF edited.panic
        THEN [result |-> "Panic", accounts |-> db]
        ELSE [result |-> "Ok",
              accounts |->
                set_account(
                    set_account(db, from_address, increment_nonce(from_account)),
                    to_address,
                    push_contributor(to_edited, from_address))]

----------------------------------------------------------------------------
(* Keccak256Algorithm and the merkle tree of the ledger. *)

\* [0; 32]
ZeroRoot == <<"zero">>

\* Option::None for the right sibling.
NoneHash == <<"none">>

\* keccak256(AccountCommit { account, nonce, data, contributors }.abi_encode())
leaf_hash(address, account) ==
    <<"leaf", address, account.nonce, account.data, account.contributors>>

AddrCode(a) == CASE a = "a1" -> 1 [] a = "a2" -> 2 [] a = "a3" -> 3 [] OTHER -> 4

CharCode(c) == CASE c = "a" -> 1 [] c = "b" -> 2 [] OTHER -> 3

RECURSIVE DataCode(_)
DataCode(seq) ==
    IF seq = <<>> THEN 0 ELSE CharCode(Head(seq)) + 4 * DataCode(Tail(seq))

RECURSIVE ContributorsCode(_)
ContributorsCode(seq) ==
    IF seq = <<>> THEN 0 ELSE AddrCode(Head(seq)) + 5 * ContributorsCode(Tail(seq))

\* A number that tells any two leaf digests of the model apart.
LeafCode(h) ==
    ((ContributorsCode(h[5]) * 4096 + DataCode(h[4])) * 8 + h[3]) * 5 + AddrCode(h[2])

LeafMix(h) == ((LeafCode(h) % 9973) * salt) % 101

\* [u8; 32]::cmp: the byte order of two digests.  It is a total order that
\* has nothing to do with what was hashed: leaves are scattered by salt,
\* salt decides whether leaf digests come before node digests, and node
\* digests are ordered by their parts.
RECURSIVE hash_less(_, _)
hash_less(x, y) ==
    IF x[1] = "leaf" /\ y[1] = "leaf"
    THEN \/ LeafMix(x) < LeafMix(y)
         \/ LeafMix(x) = LeafMix(y) /\ LeafCode(x) < LeafCode(y)
    ELSE IF x[1] = "leaf" THEN salt % 2 = 1
    ELSE IF y[1] = "leaf" THEN salt % 2 = 0
    ELSE \/ hash_less(x[2], y[2])
         \/ x[2] = y[2] /\ hash_less(x[3], y[3])

concat_and_hash_unsorted(left, right) ==
    IF right = NoneHash THEN left ELSE <<"node", left, right>>

\* Keccak256Algorithm::concat_and_hash
concat_and_hash(left, right) ==
    IF right = NoneHash THEN left
    ELSE LET sorted == IF hash_less(right, left) THEN <<right, left>>
                       ELSE <<left, right>>
         IN  <<"node", sorted[1], sorted[2]>>

RECURSIVE insert_leaf(_, _)
insert_leaf(leaf, sorted) ==
    IF sorted = <<>> THEN <<leaf>>
    ELSE IF hash_less(leaf.hash, Head(sorted).hash)
         THEN <<leaf>> \o sorted
         ELSE <<Head(sorted)>> \o insert_leaf(leaf, Tail(sorted))

leaves_in_iteration_order(leaves) == leaves

\* leaves.sort_by(|a, b| a.hash.cmp(&b.hash)): a stable sort.
RECURSIVE sort_leaves(_)
sort_leaves(leaves) ==
    IF leaves = <<>> THEN <<>>
    ELSE insert_leaf(leaves[Len(leaves)], sort_leaves(SubSeq(leaves, 1, Len(leaves) - 1)))

\* One level up: the nodes are paired left to right, the odd one out has no
\* right sibling.
parent_layer(layer) ==
    [i \in 1..((Len(layer) + 1) \div 2) |->
        concat_and_hash(layer[2 * i - 1],
                        IF 2 * i <= Len(layer) THEN layer[2 * i] ELSE NoneHash)]

\* MerkleTree::from_leaves: the layers, the leaves first, the root last.
RECURSIVE from_leaves(_)
from_leaves(hashes) ==
    IF Len(hashes) <= 1 THEN <<hashes>>
    ELSE <<hashes>> \o from_leaves(parent_layer(hashes))

\* MerkleTree::root
tree_root(tree) == tree[Len(tree)][1]

tree_proof_first_level_only(tree, idx) ==
    IF tree = <<>> THEN <<>>
    ELSE LET layer == Head(tree)
             sibling == IF idx % 2 = 0 THEN idx + 1 ELSE idx - 1
         IN  IF sibling < Len(layer) THEN <<layer[sibling + 1]>> ELSE <<>>

\* MerkleTree::proof(&[idx]).proof_hashes(): per layer, bottom to top, the
\* sibling of the node on idx's path, when the layer has one (idx is 0-based).
RECURSIVE tree_proof(_, _)
tree_proof(tree, idx) ==
    IF tree = <<>> THEN <<>>
    ELSE LET layer == Head(tree)
             sibling == IF idx % 2 = 0 THEN idx + 1 ELSE idx - 1
         IN  (IF sibling < Len(layer) THEN <<layer[sibling + 1]>> ELSE <<>>)
                \o tree_proof(Tail(tree), idx \div 2)

\* The orders in which the HashMap may iterate over its keys.
IterationOrders(db) ==
    {o \in [1..Cardinality(DOMAIN db) -> DOMAIN db] :
        \A i, j \in 1..Cardinality(DOMAIN db) : o[i] = o[j] => i = j}

\* CanvasProcessor::get_merkle_tree, the HashMap iterating in the given order.
get_merkle_tree(db, order) ==
    LET leaves == [i \in 1..Len(order) |->
                    [hash |-> leaf_hash(order[i], db[order[i]]), account |-> order[i]]]
        sorted == sort_leaves(leaves)
        hashes == [i \in 1..Len(sorted) |-> sorted[i].hash]
    IN  [tree |-> from_leaves(hashes), leaves |-> sorted]

generate_state_root_zero_up_to_one(db, order) ==
    IF Cardinality(DOMAIN db) <= 1 THEN ZeroRoot
    ELSE tree_root(get_merkle_tree(db, order).tree)

\* CanvasProcessor::generate_state_root
generate_state_root(db, order) ==
    IF Cardinality(DOMAIN db) < 1 THEN ZeroRoot
    ELSE tree_root(get_merkle_tree(db, order).tree)

\* CanvasProcessor::generate_proof
generate_proof(db, order, address) ==
    LET merkle == get_merkle_tree(db, order)
        found == {i \in 1..Len(merkle.leaves) : merkle.leaves[i].account = address}
    IN  IF found = {}
        THEN [err |-> "Address not found", hashes |-> <<>>]
        ELSE [err |-> "", hashes |-> tree_proof(merkle.tree, (CHOOSE i \in found : TRUE) - 1)]

\* CanvasProcessor::generate_transaction_commit:
\* keccak256(zlib(rlp(transactions)))
generate_transaction_commit(transactions) == <<"commit", transactions>>

----------------------------------------------------------------------------
(* Inputs. *)

MaxIndex == 3
MaxCount == 2

\* The ledger after a2 -> a1 [insert "a" at 0], a3 -> a1 [], a2 -> a1 [].
SeedDB ==
    [a \in Addr |->
        CASE a = "a1" -> [nonce |-> 0, data |-> <<"a">>, contributors |-> <<"a2", "a3">>]
          [] a = "a2" -> [nonce |-> 2, data |-> <<>>, contributors |-> <<>>]
          [] a = "a3" -> [nonce |-> 1, data |-> <<>>, contributors |-> <<>>]]

InitLedgers == {EmptyDB, SeedDB}

Insert(i, v) == [index |-> i, count |-> 0, value |-> v]
Delete(i, c) == [index |-> i, count |-> c, value |-> <<>>]

LedgerEdits ==
    {<<>>, <<Insert(0, <<"a">>)>>, <<Insert(0, <<"b">>), Delete(2, 1)>>}

TxSet ==
    [tx : [to : Addr, data : LedgerEdits, nonce : 0..MaxNonce],
     sig : Addr \cup {RecoverError}]

\* The ledger after a1 -> a2 [insert doc at 0], for a non-empty doc.
DocDB(doc) ==
    IF doc = <<>> THEN EmptyDB
    ELSE [a \in {"a1", "a2"} |->
            IF a = "a1" THEN [nonce |-> 1, data |-> <<>>, contributors |-> <<>>]
            ELSE [nonce |-> 0, data |-> doc, contributors |-> <<"a1">>]]

Chars == {"a", "b", "c"}

Docs == UNION {[1..n -> Chars] : n \in 0..MaxLen}

EditValues == {<<>>, <<"a", "b", "c">>}

EditOps == [index : 0..MaxIndex, count : 0..MaxCount, value : EditValues]

EditLists ==
    {<<>>} \cup {<<e>> : e \in EditOps} \cup {<<e, f>> : e \in EditOps, f \in EditOps}

EditTxSet ==
    [tx : [to : {"a2"}, data : EditLists, nonce : {MaxNonce}],
     sig : {"a1"}]

----------------------------------------------------------------------------
(* The state machine. *)

NoRet == <<>>

NoRun == [pc |-> "lib"]

InitCalls(db, s, locals) ==
    /\ accounts = db
    /\ input = NoInput
    /\ result = "None"
    /\ pre = db
    /\ init = db
    /\ sent = [a \in Addr |-> 0]
    /\ selfSent = FALSE
    /\ firstSeen = [a \in Addr |-> <<>>]
    /\ accepted = {}
    /\ steps = 0
    /\ op = "none"
    /\ ret = NoRet
    /\ run = locals
    /\ salt = s

InitWith(db, s) == InitCalls(db, s, NoRun)

InitFrom(db) == InitWith(db, 1)

Init == \E db \in InitLedgers : InitFrom(db)

InitEdit == \E doc \in Docs : InitFrom(DocDB(doc))

\* One call apply_transaction(&signed) on the ledger.  A panic ends the
\* process: no call follows it.
ApplyTransaction(signed) ==
    LET out == apply_transaction(accounts, signed)
        from_address == recover_address_from_tx(signed)
        to_address == signed.tx.to
        ok == out.result = "Ok"
    IN  /\ result # "Panic"
        /\ steps < MaxSteps
        /\ \A a \in DOMAIN out.accounts :
              /\ out.accounts[a].nonce <= MaxNonce
              /\ Len(out.accounts[a].data) <= MaxLen
        /\ accounts' = out.accounts
        /\ result' = out.result
        /\ input' = signed
        /\ pre' = accounts
        /\ init' = init
        /\ sent' = IF ok THEN [sent EXCEPT ![from_address] = @ + 1] ELSE sent
        /\ selfSent' = (selfSent \/ from_address = to_address)
        /\ firstSeen' =
              IF ok /\ ~Contains(firstSeen[to_address], from_address)
              THEN [firstSeen EXCEPT ![to_address] = Append(@, from_address)]
              ELSE firstSeen
        /\ accepted' =
              IF ok /\ signed.tx.nonce = get_account(accounts, from_address).nonce
              THEN accepted \cup {<<from_address, signed.tx.nonce>>}
              ELSE accepted
        /\ steps' = steps + 1
        /\ op' = "apply_transaction"
        /\ ret' = NoRet
        /\ UNCHANGED <<run, salt>>

Next == \E signed \in TxSet : ApplyTransaction(signed)

Spec == Init /\ [][Next]_vars

NextEdit == \E signed \in EditTxSet : steps = 0 /\ ApplyTransaction(signed)

SpecEdit == InitEdit /\ [][NextEdit]_vars

----------------------------------------------------------------------------
(* The library called operation by operation. *)

LedgerAddr == Addr \cup {"a4"}

Salts == {1, 2, 7}

SetAccounts ==
    {DefaultAccount, [nonce |-> 1, data |-> <<"a">>, contributors |-> <<"a2">>]}

LedgerTxSet ==
    [tx : [to : {"a1"},
           data : {<<>>, <<Insert(0, <<"a">>)>>, <<[index |-> 1, count |-> 1, value |-> <<>>]>>},
           nonce : {0, MaxNonce}],
     sig : {"a1", "a3", RecoverError}]

InitLedger == \E db \in InitLedgers, s \in Salts : InitWith(db, s)

\* What a call other than apply_transaction does to the record of calls.
Called(name, value) ==
    /\ result # "Panic"
    /\ steps < MaxSteps
    /\ op' = name
    /\ ret' = value
    /\ pre' = accounts
    /\ input' = NoInput
    /\ result' = "None"
    /\ steps' = steps + 1
    /\ UNCHANGED <<init, sent, selfSent, firstSeen, accepted, run, salt>>

\* db.get_account(&address)
GetAccount(address) ==
    /\ Called("get_account",
              [address |-> address, account |-> get_account(accounts, address)])
    /\ UNCHANGED accounts

\* db.set_account(&address, &account)
SetAccount(address, account) ==
    /\ Called("set_account", [address |-> address, account |-> account])
    /\ accounts' = set_account(accounts, address, account)

\* canvas.generate_state_root()
GenerateStateRoot ==
    \E order \in IterationOrders(accounts) :
        /\ Called("generate_state_root", [root |-> generate_state_root(accounts, order)])
        /\ UNCHANGED accounts

\* canvas.generate_proof(&address)
GenerateProof(address) ==
    \E order \in IterationOrders(accounts) :
        /\ Called("generate_proof",
                  [address |-> address, proof |-> generate_proof(accounts, order, address)])
        /\ UNCHANGED accounts

NextLedger ==
    \/ \E signed \in LedgerTxSet : ApplyTransaction(signed)
    \/ \E address \in LedgerAddr : GetAccount(address)
    \/ \E address \in LedgerAddr, account \in SetAccounts : SetAccount(address, account)
    \/ GenerateStateRoot
    \/ \E address \in LedgerAddr : GenerateProof(address)

SpecLedger == InitLedger /\ [][NextLedger]_vars

----------------------------------------------------------------------------
(* The batch runs: main of program/src/main.rs and of script/src/main.rs. *)

NoOutput == <<>>

BatchTxSet ==
    [tx : [to : {"a1"},
           data : {<<>>, <<Insert(0, <<"b">>)>>, <<[index |-> 1, count |-> 1, value |-> <<>>]>>},
           nonce : {0, MaxNonce}],
     sig : {"a1", "a3", RecoverError}]

Batches == UNION {[1..n -> BatchTxSet] : n \in 0..MaxSteps}

\* sp1_zkvm::io::read::<Input>(): the ledger and the transactions the host
\* hands in; the initial root comes first.
InitProgram ==
    \E db \in InitLedgers, s \in Salts, transactions \in Batches :
        InitCalls(db, s,
                  [pc |-> "start", mode |-> "program", transactions |-> transactions,
                   initial_state_root |-> NoneHash, transaction_commit |-> NoneHash,
                   output |-> NoOutput])

\* The script replays the decoded transactions on InMemoryDB::default().
InitScript ==
    \E s \in Salts, transactions \in Batches :
        InitCalls(EmptyDB, s,
                  [pc |-> "loop", mode |-> "script", transactions |-> transactions,
                   initial_state_root |-> NoneHash, transaction_commit |-> NoneHash,
                   output |-> NoOutput])

InitBatch == InitProgram \/ InitScript

swallow_error(outcome) == TRUE

\* .expect("Failed to apply transaction") in the program, `?` in the script:
\* the run goes on only after Ok(()).
unwrap_apply(outcome) == outcome \in {"None", "Ok"}

public_values_swapped(initial_state_root, final_state_root, transaction_commit) ==
    [initialStateRoot |-> final_state_root,
     finalStateRoot |-> initial_state_root,
     transaction_commit |-> transaction_commit]

\* PublicValuesStruct { initialStateRoot, finalStateRoot, transaction_commit }
public_values(initial_state_root, final_state_root, transaction_commit) ==
    [initialStateRoot |-> initial_state_root,
     finalStateRoot |-> final_state_root,
     transaction_commit |-> transaction_commit]

\* main, before the loop: the initial root and the commitment.
MainStart ==
    /\ run.pc = "start"
    /\ \E order \in IterationOrders(accounts) :
        run' = [run EXCEPT !.pc = "loop",
                           !.initial_state_root = generate_state_root(accounts, order),
                           !.transaction_commit =
                                generate_transaction_commit(run.transactions)]
    /\ UNCHANGED <<accounts, input, result, pre, init, sent, selfSent, firstSeen,
                   accepted, steps, op, ret, salt>>

\* One turn of `for tx in input.transactions`.
LoopApply ==
    /\ run.pc = "loop"
    /\ unwrap_apply(result)
    /\ steps < Len(run.transactions)
    /\ ApplyTransaction(run.transactions[steps + 1])

MainApply == run.mode = "program" /\ LoopApply

ScriptApply == run.mode = "script" /\ LoopApply

\* After the loop: the final root, and what is emitted with it.
LoopDone(final_state_root, output) ==
    /\ run.pc = "loop"
    /\ unwrap_apply(result)
    /\ steps = Len(run.transactions)
    /\ \E order \in IterationOrders(accounts) :
        final_state_root = generate_state_root(accounts, order)
    /\ run' = [run EXCEPT !.pc = "done", !.output = output]
    /\ UNCHANGED <<accounts, input, result, pre, init, sent, selfSent, firstSeen,
                   accepted, steps, op, ret, salt>>

\* The roots the ledger can have, over the HashMap's iteration orders.
FinalRoots == {generate_state_root(accounts, order) : order \in IterationOrders(accounts)}

\* main of the program, after the loop: the final root, and the public
\* values committed.
MainFinish ==
    /\ run.mode = "program"
    /\ \E final_state_root \in FinalRoots :
        LoopDone(final_state_root,
                 public_values(run.initial_state_root, final_state_root,
                               run.transaction_commit))

\* main of the script, after the loops: the final root printed.
ScriptFinish ==
    /\ run.mode = "script"
    /\ \E final_state_root \in FinalRoots :
        LoopDone(final_state_root, [finalStateRoot |-> final_state_root])

NextBatch == MainStart \/ MainApply \/ MainFinish \/ ScriptApply \/ ScriptFinish

SpecBatch == InitBatch /\ [][NextBatch]_vars

----------------------------------------------------------------------------
(* Keccak256Algorithm::concat_and_hash called on its own. *)

LeafHashes ==
    {leaf_hash(a, account) : a \in {"a1", "a2"}, account \in SetAccounts}

NodeHashes == {<<"node", x, y>> : x \in LeafHashes, y \in {leaf_hash("a1", DefaultAccount)}}

HashInputs == LeafHashes \cup NodeHashes

\* Keccak256Algorithm::concat_and_hash(&left, right)
ConcatAndHash(left, right) ==
    /\ Called("concat_and_hash",
              [left |-> left, right |-> right, out |-> concat_and_hash(left, right)])
    /\ UNCHANGED accounts

NextHash ==
    \E left \in HashInputs, right \in HashInputs \cup {NoneHash} : ConcatAndHash(left, right)

SpecHash == InitLedger /\ [][NextHash]_vars

----------------------------------------------------------------------------
(* Vocabulary of the claims. *)

Sender == recover_address_from_tx(input)
Recipient == input.tx.to

Failed == result \in {"AuthenticationError", "NonceError", "Panic"}

Before(a) == get_account(pre, a)
After(a) == get_account(accounts, a)

NoDuplicates(seq) ==
    \A i, j \in 1..Len(seq) : seq[i] = seq[j] => i = j

IsPrefix(p, seq) ==
    Len(p) <= Len(seq) /\ SubSeq(seq, 1, Len(p)) = p

RECURSIVE Without(_, _)
Without(seq, dropped) ==
    IF seq = <<>> THEN <<>>
    ELSE IF Contains(dropped, Head(seq)) THEN Without(Tail(seq), dropped)
    ELSE <<Head(seq)>> \o Without(Tail(seq), dropped)

\* The edit semantics as the specification words them: an insert puts value
\* before position index, a delete removes the count characters from
\* position index on and ignores value.
RefEdit(doc, e) ==
    IF e.count = 0
    THEN SubSeq(doc, 1, e.index) \o e.value \o SubSeq(doc, e.index + 1, Len(doc))
    ELSE SubSeq(doc, 1, e.index) \o SubSeq(doc, e.index + e.count + 1, Len(doc))

InRange(doc, e) ==
    IF e.count = 0 THEN e.index <= Len(doc) ELSE e.index + e.count <= Len(doc)

RECURSIVE RefFold(_, _)
RefFold(doc, edits) ==
    IF edits = <<>> THEN doc ELSE RefFold(RefEdit(doc, Head(edits)), Tail(edits))

RECURSIVE AllInRange(_, _)
AllInRange(doc, edits) ==
    \/ edits = <<>>
    \/ /\ InRange(doc, Head(edits))
       /\ AllInRange(RefEdit(doc, Head(edits)), Tail(edits))

abc == <<"a", "b", "c">>

----------------------------------------------------------------------------
(* The claims. *)

\* C1 (as claimed): after a successful self-send the account's entry has the
\* pre-call nonce + 1, the pre-call data with the edits applied, and the
\* sender among its contributors.
C1_SelfSendMerged ==
    (result = "Ok" /\ Sender = Recipient) =>
        /\ After(Sender).nonce = Before(Sender).nonce + 1
        /\ After(Sender).data = RefFold(Before(Sender).data, input.tx.data)
        /\ Contains(After(Sender).contributors, Sender)

\* C2: a call that fails (signature recovery, stale nonce, out-of-range edit)
\* leaves the ledger exactly as it was before the call.
C2_FailureLeavesLedger == Failed => accounts = pre

\* A call that panicked on its second edit, after the first one had been
\* applied in memory, on a ledger that was not empty.
C2_Witness ==
    /\ result = "Panic"
    /\ Len(input.tx.data) = 2
    /\ InRange(Before(Recipient).data, input.tx.data[1])
    /\ pre # EmptyDB

\* C3 (as claimed): once a transaction of a sender with nonce n, n being the
\* sender's stored nonce, was accepted, a call with the same sender and the
\* same nonce ends in the nonce error and leaves the ledger unchanged.
C3_ReplayRejected ==
    [][(<<recover_address_from_tx(input'), input'.tx.nonce>> \in accepted)
            => (result' = "NonceError" /\ accounts' = accounts)]_vars

\* C4: as long as no call was a self-send, every account's stored nonce is
\* its nonce before the first call plus the number of successful calls it
\* was the sender of.
C4_NonceCountsSends ==
    ~selfSent =>
        \A a \in Addr : After(a).nonce = get_account(init, a).nonce + sent[a]

\* Two successful sends of a1 and no self-send.
C4_Witness ==
    /\ ~selfSent
    /\ sent["a1"] = 2
    /\ result = "Ok"
    /\ After("a1").nonce = 2

\* C5: with a recovered sender and in-range edits, the call ends in the nonce
\* error exactly when tx.nonce < the sender's stored nonce and succeeds for
\* every tx.nonce >= it; on success the stored nonce moves by at most one
\* from its old value (by exactly one when sender and recipient differ),
\* whatever tx.nonce was.
C5_NonceRule ==
    (/\ result # "None"
     /\ Sender # RecoverError
     /\ AllInRange(Before(Recipient).data, input.tx.data)) =>
        /\ (result = "NonceError") <=> (input.tx.nonce < Before(Sender).nonce)
        /\ (input.tx.nonce >= Before(Sender).nonce) => result = "Ok"
        /\ result = "Ok" =>
            /\ After(Sender).nonce \in {Before(Sender).nonce, Before(Sender).nonce + 1}
            /\ Sender # Recipient => After(Sender).nonce = Before(Sender).nonce + 1

\* A transaction that skips nonces (tx.nonce is two ahead of the stored nonce)
\* was accepted, and the stored nonce moved by one.
C5_Witness ==
    /\ result = "Ok"
    /\ Sender # Recipient
    /\ input.tx.nonce = Before(Sender).nonce + 2
    /\ After(Sender).nonce = Before(Sender).nonce + 1

\* C6 (as claimed): a call with an out-of-range edit (measured on the document
\* the preceding edits of the transaction left) returns a BoundsError and
\* applies nothing; an insert at index = length is valid.
C6_BoundsErrorReturned ==
    /\ (result # "None" /\ ~AllInRange(Before(Recipient).data, input.tx.data)) =>
            (result = "BoundsError" /\ accounts = pre)
    /\ (/\ result # "None"
        /\ Len(input.tx.data) = 1
        /\ input.tx.data[1].count = 0
        /\ input.tx.data[1].index = Len(Before(Recipient).data)) => result = "Ok"

\* C7 (as claimed): the insert of "abc" at 0 into "" gives "abc", and the edit
\* {index 1, count 2, value ""} on "abc" gives "ac".
C7_EditExampleAsClaimed ==
    result = "Ok" =>
        /\ (Before(Recipient).data = <<>> /\ input.tx.data = <<Insert(0, abc)>>)
                => After(Recipient).data = abc
        /\ (Before(Recipient).data = abc /\ input.tx.data = <<Delete(1, 2)>>)
                => After(Recipient).data = <<"a", "c">>

\* C7 (amended): the insert of "abc" at 0 into "" gives "abc", and the edit
\* {index 1, count 2, value ""} on "abc" gives "a", in two transactions or as
\* the two edits of one.
C7_EditExample ==
    result = "Ok" =>
        /\ (Before(Recipient).data = <<>> /\ input.tx.data = <<Insert(0, abc)>>)
                => After(Recipient).data = abc
        /\ (Before(Recipient).data = abc /\ input.tx.data = <<Delete(1, 2)>>)
                => After(Recipient).data = <<"a">>
        /\ (Before(Recipient).data = <<>>
                /\ input.tx.data = <<Insert(0, abc), Delete(1, 2)>>)
                => After(Recipient).data = <<"a">>

\* Both edits of the example applied to the empty document by one call.
C7_Witness ==
    /\ result = "Ok"
    /\ Before(Recipient).data = <<>>
    /\ input.tx.data = <<Insert(0, abc), Delete(1, 2)>>
    /\ After(Recipient).data = <<"a">>

\* C8: a call succeeds only on an in-range edit list, and after it the
\* recipient's data is the left-to-right fold of the edits over its pre-call
\* data, each edit read on the document the previous one left: count = 0
\* inserts value before index, count > 0 removes the count characters from
\* index on and ignores value.
C8_EditsFold ==
    result = "Ok" =>
        /\ AllInRange(Before(Recipient).data, input.tx.data)
        /\ After(Recipient).data = RefFold(Before(Recipient).data, input.tx.data)

\* "b" -> "babc" -> "bab": the delete's index 3 exists only in the document
\* the insert left, and its value "abc" is ignored.
C8_Witness ==
    /\ result = "Ok"
    /\ Before(Recipient).data = <<"b">>
    /\ input.tx.data = <<Insert(1, abc), [index |-> 3, count |-> 1, value |-> abc]>>
    /\ After(Recipient).data = <<"b", "a", "b">>

\* C9: every account's contributors have no duplicates, extend the list the
\* account had before the last call, and are the initial contributors
\* followed by the other senders in the order of their first successful
\* transaction to the account.
C9_Contributors ==
    \A a \in Addr :
        /\ NoDuplicates(After(a).contributors)
        /\ IsPrefix(Before(a).contributors, After(a).contributors)
        /\ After(a).contributors =
                get_account(init, a).contributors
                    \o Without(firstSeen[a], get_account(init, a).contributors)

\* a1 self-sent and was appended after the two initial contributors; then a3,
\* already a contributor, sent to a1 again and was not appended again.
C9_Witness ==
    /\ After("a1").contributors = <<"a2", "a3", "a1">>
    /\ Before("a1").contributors = <<"a2", "a3", "a1">>
    /\ result = "Ok"
    /\ Sender = "a3"
    /\ Recipient = "a1"

\* C10: a successful call leaves every account other than the sender and the
\* recipient as it was: materialized or not, and with the same value.
C10_Frame ==
    result = "Ok" =>
        \A a \in Addr \ {Sender, Recipient} :
            /\ (a \in DOMAIN accounts) <=> (a \in DOMAIN pre)
            /\ a \in DOMAIN pre => accounts[a] = pre[a]

\* A successful call between two accounts while the third one was materialized
\* with a value of its own.
C10_Witness ==
    /\ result = "Ok"
    /\ Sender # Recipient
    /\ (Addr \ {Sender, Recipient}) \subseteq DOMAIN pre
    /\ \E a \in Addr \ {Sender, Recipient} : pre[a] # DefaultAccount

\* C11: over every call, no account's stored nonce decreases (nor falls below
\* its initial value); it changes only in a successful call whose recovered
\* sender is that account; and a successful call between two accounts leaves
\* the recipient's nonce and the sender's data and contributors unchanged.
C11_NonceMonotone ==
    /\ \A a \in Addr :
        /\ After(a).nonce >= Before(a).nonce
        /\ After(a).nonce >= get_account(init, a).nonce
        /\ After(a).nonce # Before(a).nonce => (result = "Ok" /\ Sender = a)
    /\ (result = "Ok" /\ Sender # Recipient) =>
        /\ After(Recipient).nonce = Before(Recipient).nonce
        /\ After(Sender).data = Before(Sender).data
        /\ After(Sender).contributors = Before(Sender).contributors

\* a1, which holds a document and contributors, sent to an account whose
\* nonce was already positive.
C11_Witness ==
    /\ result = "Ok"
    /\ Sender # Recipient
    /\ Before(Recipient).nonce > 0
    /\ Before(Sender).data # <<>>
    /\ Before(Sender).contributors # <<>>
    /\ After(Sender).nonce = Before(Sender).nonce + 1

\* C20: the checks come in the order recovery, nonce, edits: a signature that
\* does not recover ends in the authentication error whatever the nonce and
\* the edits are; with a recovered sender a stale nonce ends in the nonce
\* error whatever the edits are; an out-of-range edit is met only after
\* both; and the ledger is written only when all three passed.
C20_ValidationOrder ==
    result # "None" =>
        LET stale == input.tx.nonce < Before(Sender).nonce
            inRange == AllInRange(Before(Recipient).data, input.tx.data)
        IN  /\ Sender = RecoverError => result = "AuthenticationError"
            /\ (Sender # RecoverError /\ stale) => result = "NonceError"
            /\ (Sender # RecoverError /\ ~stale /\ ~inRange) => result = "Panic"
            /\ (Sender # RecoverError /\ ~stale /\ inRange) => result = "Ok"
            /\ accounts # pre => result = "Ok"

\* A transaction with a stale nonce and an out-of-range edit was rejected
\* with the nonce error.
C20_Witness ==
    /\ result = "NonceError"
    /\ ~AllInRange(Before(Recipient).data, input.tx.data)
    /\ input.tx.nonce < Before(Sender).nonce

\* The root of a ledger, its HashMap iterating in some order.
RootOf(db) == generate_state_root(db, CHOOSE o \in IterationOrders(db) : TRUE)

Mutating == op \in {"apply_transaction", "set_account"}

\* C14 (as claimed): over every apply_transaction and every set_account the
\* state root changes if and only if get_account returns a different
\* (nonce, data, contributors) for at least one account id.
C14_RootChangesIffAccountChanges ==
    Mutating =>
        (RootOf(accounts) # RootOf(pre)) <=> (\E id \in LedgerAddr : After(id) # Before(id))

\* The recombination of a proof: the hashes folded, bottom to top, into the
\* leaf hash with the pairwise rule.
RECURSIVE FoldProof(_, _)
FoldProof(h, hashes) ==
    IF hashes = <<>> THEN h
    ELSE FoldProof(concat_and_hash(h, Head(hashes)), Tail(hashes))

\* C15: generate_proof(id) of a materialized id returns hashes that fold into
\* the id's leaf hash to exactly the state root, whatever order the HashMap
\* iterates in; for an id that is not materialized it fails with the
\* not-found error.
C15_ProofRecombinesToRoot ==
    op = "generate_proof" =>
        IF ret.address \in DOMAIN accounts
        THEN /\ ret.proof.err = ""
             /\ \A order \in IterationOrders(accounts) :
                    FoldProof(leaf_hash(ret.address, accounts[ret.address]),
                              ret.proof.hashes)
                        = generate_state_root(accounts, order)
        ELSE ret.proof.err = "Address not found"

\* A proof in a ledger of four accounts: two hashes, the sibling leaf and
\* the sibling node.
C15_Witness ==
    /\ op = "generate_proof"
    /\ Cardinality(DOMAIN accounts) = 4
    /\ ret.proof.err = ""
    /\ Len(ret.proof.hashes) = 2
    /\ ret.proof.hashes[1][1] = "leaf"
    /\ ret.proof.hashes[2][1] = "node"

\* C17: generate_state_root returns the zero root exactly when no account is
\* materialized, in every state and whatever order the HashMap iterates in.
C17_ZeroRootIffEmpty ==
    /\ \A order \in IterationOrders(accounts) :
            (generate_state_root(accounts, order) = ZeroRoot) <=> (DOMAIN accounts = {})
    /\ op = "generate_state_root" => ((ret.root = ZeroRoot) <=> (DOMAIN accounts = {}))

\* The zero root returned by the second call made on the empty ledger: the
\* first one, which left the ledger empty, was a read or a failed
\* transaction.
C17_Witness ==
    /\ op = "generate_state_root"
    /\ steps >= 2
    /\ init = EmptyDB
    /\ ret.root = ZeroRoot

\* C18: get_account leaves the ledger as it is and returns the stored value,
\* or the default account for an id that is not materialized, which stays
\* so; after set_account(id, a) get_account(id) returns a and every other id
\* is as before; no call removes a materialized id.
C18_GetSetContract ==
    /\ op = "get_account" =>
        /\ accounts = pre
        /\ ret.address \in DOMAIN pre => ret.account = pre[ret.address]
        /\ ret.address \notin DOMAIN pre =>
            (ret.account = DefaultAccount /\ ret.address \notin DOMAIN accounts)
    /\ op = "set_account" =>
        /\ ret.address \in DOMAIN accounts
        /\ accounts[ret.address] = ret.account
        /\ \A id \in LedgerAddr \ {ret.address} :
            /\ (id \in DOMAIN accounts) <=> (id \in DOMAIN pre)
            /\ id \in DOMAIN pre => accounts[id] = pre[id]
    /\ DOMAIN pre \subseteq DOMAIN accounts
    /\ DOMAIN init \subseteq DOMAIN accounts

\* set_account overwrote a materialized account with another value while two
\* other accounts were materialized.
C18_Witness ==
    /\ op = "set_account"
    /\ ret.address \in DOMAIN pre
    /\ pre[ret.address] # ret.account
    /\ accounts[ret.address] = ret.account
    /\ Cardinality(DOMAIN pre) = 3

\* The batch applied to db in order, up to its first failure: whether all
\* succeeded, how many did before the first failure, and the ledger left.
RECURSIVE ApplyAll(_, _)
ApplyAll(db, transactions) ==
    IF transactions = <<>> THEN [ok |-> TRUE, applied |-> 0, accounts |-> db]
    ELSE LET out == apply_transaction(db, Head(transactions))
         IN  IF out.result # "Ok" THEN [ok |-> FALSE, applied |-> 0, accounts |-> db]
             ELSE [ApplyAll(out.accounts, Tail(transactions)) EXCEPT !.applied = @ + 1]

Reverse(seq) == [i \in 1..Len(seq) |-> seq[Len(seq) + 1 - i]]

\* C12: in a batch run no transaction after the first failing one is
\* applied: when a transaction failed, it is the first failing one of the
\* batch, the ledger is what the transactions before it left, and nothing is
\* emitted; output is emitted only after every transaction of the batch
\* succeeded.
C12_FailureAbortsBatch ==
    LET whole == ApplyAll(init, run.transactions)
    IN  /\ steps <= whole.applied + 1
        /\ Failed =>
            /\ steps = whole.applied + 1
            /\ accounts = whole.accounts
            /\ run.output = NoOutput
        /\ run.output # NoOutput =>
            /\ whole.ok
            /\ steps = Len(run.transactions)
            /\ accounts = whole.accounts

\* The first transaction of a batch of the program failed while another one
\* was still to come.
C12_Witness ==
    /\ run.pc = "loop"
    /\ run.mode = "program"
    /\ Failed
    /\ steps < Len(run.transactions)
    /\ run.output = NoOutput

\* C13: in a completed run of the program the emitted initialStateRoot is the
\* root of the ledger before the batch, the emitted finalStateRoot is the
\* root of the ledger after every transaction was applied once, in input
\* order, and the commitment is the one of the transaction list as given.
C13_BatchOutput ==
    (run.pc = "done" /\ run.mode = "program") =>
        LET whole == ApplyAll(init, run.transactions)
        IN  /\ whole.ok
            /\ whole.applied = Len(run.transactions)
            /\ accounts = whole.accounts
            /\ run.output.initialStateRoot = RootOf(init)
            /\ run.output.finalStateRoot = RootOf(whole.accounts)
            /\ run.output.transaction_commit
                    = generate_transaction_commit(run.transactions)

\* A completed run of two transactions which, applied in the other order,
\* succeed as well and leave another ledger with another root.
C13_Witness ==
    /\ run.pc = "done"
    /\ run.mode = "program"
    /\ Len(run.transactions) = 2
    /\ LET other == ApplyAll(init, Reverse(run.transactions))
       IN  /\ other.ok
           /\ other.accounts # accounts
           /\ RootOf(other.accounts) # run.output.finalStateRoot

\* C16: what a completed run emits, and the ledger it leaves, are functions
\* of the initial ledger and the transaction list: the same whatever orders
\* the HashMap iterated in when the two roots were computed.
C16_Deterministic ==
    run.pc = "done" =>
        /\ accounts = ApplyAll(init, run.transactions).accounts
        /\ \A first \in IterationOrders(init), last \in IterationOrders(accounts) :
            run.output =
                IF run.mode = "program"
                THEN public_values(generate_state_root(init, first),
                                   generate_state_root(accounts, last),
                                   generate_transaction_commit(run.transactions))
                ELSE [finalStateRoot |-> generate_state_root(accounts, last)]

\* A completed run of the program on a ledger of three accounts, which the
\* HashMap can iterate over in six orders.
C16_Witness ==
    /\ run.pc = "done"
    /\ run.mode = "program"
    /\ Cardinality(DOMAIN init) = 3
    /\ Len(run.transactions) = 2
    /\ accounts # init

\* C19: concat_and_hash(a, Some(b)) is the hash of the two in ascending
\* order, so it equals concat_and_hash(b, Some(a)); concat_and_hash(a, None)
\* is a.
C19_ConcatCommutes ==
    op = "concat_and_hash" =>
        IF ret.right = NoneHash THEN ret.out = ret.left
        ELSE /\ ret.out = concat_and_hash(ret.right, ret.left)
             /\ ret.out[1] = "node"
             /\ {ret.out[2], ret.out[3]} = {ret.left, ret.right}
             /\ ~hash_less(ret.out[3], ret.out[2])

\* A call whose right hash is the smaller one: the two were swapped.
C19_Witness ==
    /\ op = "concat_and_hash"
    /\ ret.right # NoneHash
    /\ hash_less(ret.right, ret.left)
    /\ ret.out = <<"node", ret.right, ret.left>>

====
